---- MODULE Spec2Model ----
(***************************************************************************)
(* Trajectory replay (cua_bench/replay.py) and the image retention         *)
(* callback (agent/callbacks/image_retention.py) as state machines.        *)
(*                                                                         *)
(*   ReplaySpec     one run of replay_trajectory over a directory of       *)
(*                  *_agent_response.json files                            *)
(*   RetentionSpec  ImageRetentionCallback.on_llm_start applied to a       *)
(*                  message list, then again to what it returned           *)
(***************************************************************************)
EXTENDS Integers, Sequences, FiniteSets, TLC

VARIABLES
    \* ---- replay_trajectory ----
    sdk_installed,          \* whether `from agent.computers import cuaComputerHandler` succeeds
    trajectory_dir,         \* "empty" (None or ""), "missing" or "exists"
    files,                  \* the *_agent_response.json files under the directory (index prefixes)
    content,                \* file -> what the file holds
    pc,                     \* position of the run
    err,                    \* the exception the run raised to its caller, NoError if none
    latest_response_file,   \* response_files[-1]
    actions_to_execute,     \* the extracted actions
    i,                      \* 1-based position of the for loop in actions_to_execute
    actions_executed,       \* the counter the run returns
    calls,                  \* positions of the actions whose handler method was invoked, in order
    warned,                 \* positions of the actions logged as "Unknown action type", in order
    pauses,                 \* number of asyncio.sleep(action_delay) completed
    inflight,               \* number of handler methods started and not yet finished
    inits,                  \* number of completed handler._initialize() calls
    raised,                 \* positions of the actions whose handler method raised, in order
    result,                 \* <<n>> once the run has returned n, NoResult before
    \* ---- ImageRetentionCallback ----
    messages,               \* the caller's message list, as it was before the first call
    only_n_most_recent_images, \* the budget: <<n>>, or Unset (None)
    caller_messages,        \* the caller's message list object as it is now
    returned,               \* what each on_llm_start call returned, in call order:
                            \* the list, and whether it is the very list it was given
    \* ---- MilestoneTool ----
    path,                   \* params["path"], a sequence of characters (<<>>: missing or "")
    description,            \* params["description"], "" when missing
    m_pc,                   \* position of the call
    via,                    \* how call ran _execute_save: "thread", "loop", or "none" (not run)
    is_windows,             \* the local of _execute_save
    dir_path,               \* the local of _execute_save
    splitter,               \* the module whose dirname split the path, "none" before
    attempted,              \* the remote operations started, in order
    completed,              \* the remote operations that returned, in order
    m_result,               \* <<dict>> once call has returned it, NoResult before
    \* ---- AgentHLEAgent.perform_task ----
    max_steps,              \* self.max_steps
    stream,                 \* the results agent.run will yield, in order
    tail,                   \* what agent.run does after them: "ends", "raises" (an
                            \* Exception) or "cancelled" (a BaseException that is none)
    tracer,                 \* whether a tracer was passed
    recorded,               \* the steps the tracer has recorded, in order
    a_pc,                   \* position of perform_task
    step,                   \* the local: results consumed so far
    task_completed,         \* the local
    total_usage,            \* the local, its prompt_tokens and completion_tokens
    agent_result            \* <<AgentResult>> once returned, NoResult before

replayVars == <<sdk_installed, trajectory_dir, files, content, pc, err, latest_response_file,
                actions_to_execute, i, actions_executed, calls, warned, pauses, inflight,
                inits, raised, result>>
retentionVars == <<messages, only_n_most_recent_images, caller_messages, returned>>
milestoneVars == <<path, description, m_pc, via, is_windows, dir_path, splitter, attempted,
                   completed, m_result>>
agentVars == <<max_steps, stream, tail, tracer, recorded, a_pc, step, task_completed, total_usage,
               agent_result>>
vars == <<replayVars, retentionVars, milestoneVars, agentVars>>

None == "None"
NoError == "NoError"
NoResult == <<>>
Return(n) == <<n>>
NoFile == <<>>
Unset == <<>>

\* ------------------------------------------------------------------ bounds
MaxFiles == 3       \* files in one trajectory directory (name family)
MaxMsgs == 3        \* messages in one recorded history (history family)
MaxHistory == 5     \* messages in a list handed to the retention callback
MaxBudget == 2      \* largest retention budget tried
MaxShared == 3      \* messages in a list whose messages may hold one and the same output dict
MaxPathLen == 4     \* characters of a milestone path (besides the longer examples)
MaxResults == 3     \* results one agent run yields
MaxSteps == 3       \* largest max_steps tried
MaxItems == 1       \* items of one result's output (besides the longer examples)

\* ------------------------------------------------------------------ helpers
Range(s) == {s[k] : k \in DOMAIN s}
SeqsUpTo(S, n) == UNION {[1..k -> S] : k \in 0..n}
Max(a, b) == IF a > b THEN a ELSE b

\* ================================================================= replay
\* A file "<digits>_agent_response.json" is kept as its digits; everything after the
\* digits is the same in every name.
FileNames == {<<1>>, <<2>>, <<3>>, <<9>>, <<1, 0>>, <<1, 2>>, <<0, 3>>}
\* The names of the history family: with 1 and 2 the file chosen is the one of
\* the highest index, with 10 and either of them it is not.
HistoryFileNames == {<<1>>, <<2>>, <<1, 0>>}

\* The characters of a file name up to and including the '_' that ends the index:
\* ord('0') = 48 .. ord('9') = 57, ord('_') = 95.
NameChars(f) == [k \in 1..(Len(f) + 1) |-> IF k <= Len(f) THEN 48 + f[k] ELSE 95]

\* The number the digits of a file name spell.
RECURSIVE IndexOf(_)
IndexOf(f) == IF f = <<>> THEN 0 ELSE 10 * IndexOf(SubSeq(f, 1, Len(f) - 1)) + f[Len(f)]

\* str.__lt__ on the characters: the first differing character decides, a proper
\* prefix is smaller.
RECURSIVE StrLess(_, _)
StrLess(a, b) ==
    IF b = <<>> THEN FALSE
    ELSE IF a = <<>> THEN TRUE
    ELSE IF Head(a) # Head(b) THEN Head(a) < Head(b)
    ELSE StrLess(Tail(a), Tail(b))

\* Path.__lt__ for two files of one directory.
PathLess(f, g) == StrLess(NameChars(f), NameChars(g))

\* sorted(trajectory_path.rglob("*_agent_response.json"))
RECURSIVE sorted(_)
sorted(S) ==
    IF S = {} THEN <<>>
    ELSE LET least == CHOOSE f \in S : \A g \in S \ {f} : PathLess(f, g)
         IN  <<least>> \o sorted(S \ {least})

\* Messages of a recorded history.
CallMsg(t) == [isdict |-> TRUE, type |-> "computer_call", action |-> [type |-> t]]
ReasoningMsg == [isdict |-> TRUE, type |-> "reasoning", action |-> [type |-> None]]
NonDictItem == [isdict |-> FALSE, type |-> None, action |-> [type |-> None]]
RecordedMessages ==
    {CallMsg("move"), CallMsg("click"), CallMsg("type"), CallMsg("screenshot"),
     CallMsg("fly"), CallMsg(None), ReasoningMsg, NonDictItem}

\* The operations the handler has for the action types above ("fly" has none).
HandlerMethods == {"move", "click", "type", "screenshot"}

Undecodable == [decodable |-> FALSE, messages |-> <<>>]
Artifact(msgs) == [decodable |-> TRUE, messages |-> msgs]

ExtractActionsWithScreenshots(msgs) ==
    LET IsCall(item) == item.isdict /\ item.type = "computer_call" /\ item.action.type # None
        kept == SelectSeq(msgs, IsCall)
    IN  [k \in 1..Len(kept) |-> kept[k].action]

\* The loop collecting the actions of the computer_call messages.
Replayable(item) ==
    /\ item.isdict
    /\ item.type = "computer_call"
    /\ item.action.type # None
    /\ item.action.type # "screenshot"
ExtractActions(msgs) ==
    LET kept == SelectSeq(msgs, Replayable)
    IN  [k \in 1..Len(kept) |-> kept[k].action]

\* getattr(handler, action_type, None)
HasMethod(action_type) == action_type \in HandlerMethods

\* What each file holds: the history recorded so far when the file was written
\* (a prefix of the whole history), or something json.load cannot decode.
Prefixes(h) == {Artifact(SubSeq(h, 1, n)) : n \in 0..Len(h)} \cup {Undecodable}

ReplayIdle ==
    /\ sdk_installed = TRUE
    /\ trajectory_dir = "exists"
    /\ files = {}
    /\ content = <<>>
    /\ pc = "Idle"
    /\ err = NoError
    /\ latest_response_file = NoFile
    /\ actions_to_execute = <<>>
    /\ i = 0
    /\ actions_executed = 0
    /\ calls = <<>>
    /\ warned = <<>>
    /\ pauses = 0
    /\ inflight = 0
    /\ inits = 0
    /\ raised = <<>>
    /\ result = NoResult

RetentionIdle ==
    /\ messages = <<>>
    /\ only_n_most_recent_images = Unset
    /\ caller_messages = <<>>
    /\ returned = <<>>

MilestoneIdle ==
    /\ path = <<>>
    /\ description = ""
    /\ m_pc = "Idle"
    /\ via = "none"
    /\ is_windows = FALSE
    /\ dir_path = <<>>
    /\ splitter = "none"
    /\ attempted = <<>>
    /\ completed = <<>>
    /\ m_result = NoResult

NoUsage == [prompt_tokens |-> 0, completion_tokens |-> 0]

AgentIdle ==
    /\ max_steps = 100
    /\ stream = <<>>
    /\ tail = "ends"
    /\ tracer = FALSE
    /\ recorded = <<>>
    /\ a_pc = "Idle"
    /\ step = 0
    /\ task_completed = FALSE
    /\ total_usage = NoUsage
    /\ agent_result = NoResult

ReplayStart ==
    /\ pc = "NotStarted"
    /\ err = NoError
    /\ latest_response_file = NoFile
    /\ actions_to_execute = <<>>
    /\ i = 0
    /\ actions_executed = 0
    /\ calls = <<>>
    /\ warned = <<>>
    /\ pauses = 0
    /\ inflight = 0
    /\ inits = 0
    /\ raised = <<>>
    /\ result = NoResult

\* Many file names, one history that every file holds in full.
NameFamily ==
    /\ sdk_installed = TRUE
    /\ trajectory_dir = "exists"
    /\ files \in {S \in SUBSET FileNames : Cardinality(S) <= MaxFiles}
    /\ \E h \in {<<CallMsg("move"), CallMsg("fly"), CallMsg("click")>>} :
           content = [f \in files |-> Artifact(h)]

\* A pair of file names (or less), every history, every file a prefix of it (or
\* undecodable).
HistoryFamily ==
    /\ sdk_installed = TRUE
    /\ trajectory_dir = "exists"
    /\ \E f, g \in HistoryFileNames : files \in SUBSET {f, g}
    /\ \E h \in SeqsUpTo(RecordedMessages, MaxMsgs) :
           content \in [files -> Prefixes(h)]

\* The runs that end before any file is looked at.
BadSetupFamily ==
    /\ files = {}
    /\ content = <<>>
    /\ \/ sdk_installed = FALSE /\ trajectory_dir = "exists"
       \/ sdk_installed = TRUE /\ trajectory_dir \in {"empty", "missing"}

ReplayInit ==
    /\ ReplayStart
    /\ RetentionIdle
    /\ MilestoneIdle
    /\ AgentIdle
    /\ (NameFamily \/ HistoryFamily \/ BadSetupFamily)

Fail(e) ==
    /\ pc' = "Error"
    /\ err' = e

StartWithoutExistsCheck ==
    /\ pc = "NotStarted"
    /\ IF ~sdk_installed THEN Fail("ImportError")
       ELSE IF trajectory_dir = "empty" THEN Fail("ValueError")
       ELSE pc' = "Selecting" /\ err' = err
    /\ UNCHANGED <<sdk_installed, trajectory_dir, files, content, latest_response_file,
                   actions_to_execute, i, actions_executed, calls, warned, pauses,
                   inflight, inits, raised, result, retentionVars, milestoneVars, agentVars>>

\* Lines 54-68: the import, the two checks of trajectory_dir.
Start ==
    /\ pc = "NotStarted"
    /\ IF ~sdk_installed THEN Fail("ImportError")
       ELSE IF trajectory_dir = "empty" THEN Fail("ValueError")
       ELSE IF trajectory_dir = "missing" THEN Fail("FileNotFoundError")
       ELSE pc' = "Selecting" /\ err' = err
    /\ UNCHANGED <<sdk_installed, trajectory_dir, files, content, latest_response_file,
                   actions_to_execute, i, actions_executed, calls, warned, pauses,
                   inflight, inits, raised, result, retentionVars, milestoneVars, agentVars>>

\* Lines 70-80: sort the response files and take the last.
Select ==
    /\ pc = "Selecting"
    /\ LET response_files == sorted(files)
       IN  IF response_files = <<>>
           THEN /\ result' = Return(0)
                /\ pc' = "Completed"
                /\ UNCHANGED latest_response_file
           ELSE /\ latest_response_file' = response_files[Len(response_files)]
                /\ pc' = "Parsing"
                /\ UNCHANGED result
    /\ UNCHANGED <<sdk_installed, trajectory_dir, files, content, err,
                   actions_to_execute, i, actions_executed, calls, warned, pauses,
                   inflight, inits, raised, retentionVars, milestoneVars, agentVars>>

\* Lines 83-84: json.load raises; nothing in replay_trajectory catches it.
OnDecodeError ==
    /\ Fail("JSONDecodeError")
    /\ UNCHANGED <<actions_to_execute, result>>

\* Lines 82-102: json.load of the chosen file, the extraction loop, the empty case.
Parse ==
    /\ pc = "Parsing"
    /\ LET data == content[latest_response_file]
       IN  IF ~data.decodable
           THEN OnDecodeError
           ELSE /\ actions_to_execute' = ExtractActions(data.messages)
                /\ err' = err
                /\ IF actions_to_execute' = <<>>
                   THEN result' = Return(0) /\ pc' = "Completed"
                   ELSE result' = result /\ pc' = "Initializing"
    /\ UNCHANGED <<sdk_installed, trajectory_dir, files, content, latest_response_file,
                   i, actions_executed, calls, warned, pauses, inflight, inits, raised,
                   retentionVars, milestoneVars, agentVars>>

InitializeIgnoringFailure ==
    /\ pc = "Initializing"
    /\ \E ok \in BOOLEAN :
           /\ inits' = IF ok THEN inits + 1 ELSE inits
           /\ actions_executed' = 0
           /\ i' = 1
           /\ pc' = "Replaying"
           /\ err' = err
    /\ UNCHANGED <<sdk_installed, trajectory_dir, files, content, latest_response_file,
                   actions_to_execute, calls, warned, pauses, inflight, raised, result,
                   retentionVars, milestoneVars, agentVars>>

\* Lines 104-108: the handler is built and initialized, or either step raises.
Initialize ==
    /\ pc = "Initializing"
    /\ \E ok \in BOOLEAN :
           IF ok
           THEN /\ inits' = inits + 1
                /\ actions_executed' = 0
                /\ i' = 1
                /\ pc' = "Replaying"
                /\ err' = err
           ELSE /\ Fail("HandlerError")
                /\ UNCHANGED <<inits, actions_executed, i>>
    /\ UNCHANGED <<sdk_installed, trajectory_dir, files, content, latest_response_file,
                   actions_to_execute, calls, warned, pauses, inflight, raised, result,
                   retentionVars, milestoneVars, agentVars>>

\* Lines 122-123: no method of that name; log the warning and go on to the sleep.
OnUnknownRaises ==
    /\ Fail("AttributeError")
    /\ UNCHANGED warned

OnUnknown ==
    /\ warned' = Append(warned, i)
    /\ pc' = "Sleeping"
    /\ err' = err

DispatchWithoutAwait ==
    /\ pc = "Replaying"
    /\ i <= Len(actions_to_execute)
    /\ LET action_type == actions_to_execute[i].type
       IN  IF HasMethod(action_type)
           THEN /\ calls' = Append(calls, i)
                /\ inflight' = inflight + 1
                /\ pc' = "Sleeping"
                /\ UNCHANGED <<warned, err>>
           ELSE /\ OnUnknown
                /\ UNCHANGED <<calls, inflight>>
    /\ UNCHANGED <<sdk_installed, trajectory_dir, files, content, latest_response_file,
                   actions_to_execute, i, actions_executed, pauses, inits, raised, result,
                   retentionVars, milestoneVars, agentVars>>

\* Lines 110-123 up to the await: look the method up; call it, or warn.
Dispatch ==
    /\ pc = "Replaying"
    /\ i <= Len(actions_to_execute)
    /\ LET action_type == actions_to_execute[i].type
       IN  IF HasMethod(action_type)
           THEN /\ calls' = Append(calls, i)
                /\ inflight' = inflight + 1
                /\ pc' = "InFlight"
                /\ UNCHANGED <<warned, err>>
           ELSE /\ OnUnknown
                /\ UNCHANGED <<calls, inflight>>
    /\ UNCHANGED <<sdk_installed, trajectory_dir, files, content, latest_response_file,
                   actions_to_execute, i, actions_executed, pauses, inits, raised, result,
                   retentionVars, milestoneVars, agentVars>>

\* Lines 120-121: the awaited method returns.
MethodReturns ==
    /\ pc = "InFlight"
    /\ inflight' = inflight - 1
    /\ actions_executed' = actions_executed + 1
    /\ pc' = "Sleeping"
    /\ UNCHANGED <<sdk_installed, trajectory_dir, files, content, err, latest_response_file,
                   actions_to_execute, i, calls, warned, pauses, inits, raised, result,
                   retentionVars, milestoneVars, agentVars>>

\* Line 120: the awaited method raises; nothing in replay_trajectory catches it.
OnMethodRaiseSwallowed ==
    /\ pc' = "Sleeping"
    /\ err' = err
    /\ UNCHANGED <<i, actions_executed, pauses>>

OnMethodRaise ==
    /\ Fail("RemoteError")
    /\ UNCHANGED <<i, actions_executed, pauses>>

MethodRaises ==
    /\ pc = "InFlight"
    /\ inflight' = inflight - 1
    /\ raised' = Append(raised, i)
    /\ OnMethodRaise
    /\ UNCHANGED <<sdk_installed, trajectory_dir, files, content, latest_response_file,
                   actions_to_execute, calls, warned, inits, result, retentionVars, milestoneVars, agentVars>>

SleepOnlyAfterCall ==
    /\ pc = "Sleeping"
    /\ pauses' = IF i \in Range(calls) THEN pauses + 1 ELSE pauses
    /\ i' = i + 1
    /\ IF i' > Len(actions_to_execute)
       THEN result' = Return(actions_executed) /\ pc' = "Completed"
       ELSE result' = result /\ pc' = "Replaying"
    /\ UNCHANGED <<sdk_installed, trajectory_dir, files, content, err, latest_response_file,
                   actions_to_execute, actions_executed, calls, warned, inflight, inits,
                   raised, retentionVars, milestoneVars, agentVars>>

\* Lines 125-129: the sleep ends; next action, or the return after the last one.
Sleep ==
    /\ pc = "Sleeping"
    /\ pauses' = pauses + 1
    /\ i' = i + 1
    /\ IF i' > Len(actions_to_execute)
       THEN result' = Return(actions_executed) /\ pc' = "Completed"
       ELSE result' = result /\ pc' = "Replaying"
    /\ UNCHANGED <<sdk_installed, trajectory_dir, files, content, err, latest_response_file,
                   actions_to_execute, actions_executed, calls, warned, inflight, inits,
                   raised, retentionVars, milestoneVars, agentVars>>

ReplayNext ==
    \/ Start
    \/ Select
    \/ Parse
    \/ Initialize
    \/ Dispatch
    \/ MethodReturns
    \/ MethodRaises
    \/ Sleep

ReplaySpec == ReplayInit /\ [][ReplayNext]_vars

\* The event loop runs the coroutine whenever it can take a step: every await of the
\* run (initialization, a handler method, the sleep) ends.
FairReplaySpec == ReplayInit /\ [][ReplayNext]_vars /\ WF_vars(ReplayNext)

\* ============================================================== retention
Omitted == "[omitted]"
Absent == "<absent>"            \* the key is not in the dict

\* A message: a dict with a type and (maybe) an output, or something that is no dict.
\* An output: a dict with (maybe) an image_url and a text, or something that is no dict
\* (also stands for a message without output: msg.get("output") is then None).
\* obj names the dict object: in a list, two messages whose outputs have the same
\* obj hold one and the same dict (the same message put in twice, or two messages
\* with one output); it is the first place of the list that holds the object, and
\* 0 outside a list and for what is no dict.
DictOutput(url) == [isdict |-> TRUE, image_url |-> url, text |-> "ok", obj |-> 0]
NoDictOutput == [isdict |-> FALSE, image_url |-> Absent, text |-> Absent, obj |-> 0]
Msg(t, out) == [isdict |-> TRUE, type |-> t, output |-> out]
NonDictMsg == [isdict |-> FALSE, type |-> None, output |-> NoDictOutput]
HistoryMessages ==
    {Msg("computer_call_output", DictOutput("data:image/png")),
     Msg("computer_call_output", DictOutput(Omitted)),
     Msg("computer_call_output", DictOutput(Absent)),
     Msg("computer_call_output", NoDictOutput),
     Msg("function_call_output", DictOutput("data:image/png")),
     Msg("computer_call", NoDictOutput),
     NonDictMsg}
HasDictOutput(msg) == msg.isdict /\ msg.output.isdict

\* The list of these messages in which place k holds the output dict of place alias[k].
Place(msgs, alias) ==
    [k \in DOMAIN msgs |->
        IF HasDictOutput(msgs[k])
        THEN [msgs[k] EXCEPT !.output = [msgs[alias[k]].output EXCEPT !.obj = alias[k]]]
        ELSE msgs[k]]
\* Every message has an output dict of its own.
OwnObjects(msgs) == Place(msgs, [k \in DOMAIN msgs |-> k])
\* The ways the messages of a list can share output dicts.
Aliasings(msgs) ==
    {alias \in [DOMAIN msgs -> DOMAIN msgs] :
        \A k \in DOMAIN msgs :
            /\ alias[k] <= k
            /\ alias[alias[k]] = alias[k]
            /\ alias[k] < k => (HasDictOutput(msgs[k]) /\ HasDictOutput(msgs[alias[k]]))}
SharingLists ==
    UNION {{Place(msgs, alias) : alias \in Aliasings(msgs)} :
               msgs \in SeqsUpTo(HistoryMessages, MaxShared)}

Budgets == {Unset} \cup {<<n>> : n \in 0..MaxBudget}

\* Lines 60-62 with the image_url test left out.
IsComputerCallOutputWithDict(msg) ==
    /\ msg.isdict
    /\ msg.type = "computer_call_output"
    /\ msg.output.isdict

\* Lines 60-62: the test that puts an index into output_indices.
IsComputerCallOutputWithImage(msg) ==
    /\ msg.isdict
    /\ msg.type = "computer_call_output"
    /\ msg.output.isdict
    /\ msg.output.image_url # Absent

\* Lines 58-63: the indices gathered, in list order.
RECURSIVE GatherFrom(_, _)
GatherFrom(msgs, idx) ==
    IF idx > Len(msgs) THEN <<>>
    ELSE (IF IsComputerCallOutputWithImage(msgs[idx]) THEN <<idx>> ELSE <<>>)
         \o GatherFrom(msgs, idx + 1)
GatherOutputIndices(msgs) == GatherFrom(msgs, 1)

\* seq[-n:] of Python: from max(len - n, 0) on when n > 0; the whole of it when
\* n = 0, because -0 is 0.
LastN(seq, n) ==
    LET start == IF n > 0 THEN Max(Len(seq) - n, 0) ELSE 0
    IN  SubSeq(seq, start + 1, Len(seq))

\* list(messages): a new list of the same dicts.
shallowcopy(msgs) == [value |-> msgs, shares_dicts |-> TRUE]

\* copy.deepcopy(messages): a new list of new dicts; dicts that were one object in
\* the list are one object in the copy (obj stays as it is).
deepcopy(msgs) == [value |-> msgs, shares_dicts |-> FALSE]

\* Lines 75-84 indexing the message after the one meant.
RedactNextIndex(msgs, output_indices, keep_output_indices) ==
    [idx \in DOMAIN msgs |->
        IF /\ (idx - 1) \in Range(output_indices)
           /\ (idx - 1) \notin keep_output_indices
           /\ msgs[idx].isdict
           /\ msgs[idx].output.isdict
        THEN [msgs[idx] EXCEPT !.output.image_url = Omitted]
        ELSE msgs[idx]]

\* Lines 75-84: the output dict of every gathered index that is not kept gets
\* "[omitted]" as image_url, written in place: every message that holds the same
\* dict object shows it, kept or not, gathered or not.
Redact(msgs, output_indices, keep_output_indices) ==
    LET written == {msgs[idx].output.obj :
                        idx \in {k \in Range(output_indices) :
                                     /\ k \notin keep_output_indices
                                     /\ HasDictOutput(msgs[k])}}
    IN  [idx \in DOMAIN msgs |->
            IF HasDictOutput(msgs[idx]) /\ msgs[idx].output.obj \in written
            THEN [msgs[idx] EXCEPT !.output.image_url = Omitted]
            ELSE msgs[idx]]

\* What a call hands back: the list returned, whether it is the list passed in, and
\* what the list passed in holds after the call.
SameList(msgs) == [ret |-> msgs, is_arg |-> TRUE, arg |-> msgs]

\* Lines 41-86.
apply_image_retention(msgs, budget) ==
    IF budget = Unset THEN SameList(msgs)
    ELSE LET n == budget[1]
             output_indices == GatherOutputIndices(msgs)
         IN  IF Len(output_indices) <= n THEN SameList(msgs)
             ELSE LET keep_output_indices == Range(LastN(output_indices, n))
                      modified_messages == deepcopy(msgs)
                      redacted == Redact(modified_messages.value, output_indices,
                                         keep_output_indices)
                  IN  [ret |-> redacted,
                       is_arg |-> FALSE,
                       arg |-> IF modified_messages.shares_dicts THEN redacted ELSE msgs]

\* Lines 26-39.
on_llm_start(msgs, budget) ==
    IF budget = Unset THEN SameList(msgs) ELSE apply_image_retention(msgs, budget)

RetentionInit ==
    /\ ReplayIdle
    /\ MilestoneIdle
    /\ AgentIdle
    /\ messages \in {OwnObjects(msgs) : msgs \in SeqsUpTo(HistoryMessages, MaxHistory)}
                    \cup SharingLists
    /\ only_n_most_recent_images \in Budgets
    /\ caller_messages = messages
    /\ returned = <<>>

\* The callback is called with the caller's list.
FirstCall ==
    /\ returned = <<>>
    /\ LET r == on_llm_start(caller_messages, only_n_most_recent_images)
       IN  /\ returned' = <<[list |-> r.ret, is_arg |-> r.is_arg]>>
           /\ caller_messages' = r.arg
    /\ UNCHANGED <<messages, only_n_most_recent_images, replayVars, milestoneVars, agentVars>>

\* The callback is called again, with the list it returned.
SecondCall ==
    /\ Len(returned) = 1
    /\ LET r == on_llm_start(returned[1].list, only_n_most_recent_images)
       IN  /\ returned' = Append(returned, [list |-> r.ret, is_arg |-> r.is_arg])
           /\ caller_messages' = IF returned[1].is_arg THEN r.arg ELSE caller_messages
    /\ UNCHANGED <<messages, only_n_most_recent_images, replayVars, milestoneVars, agentVars>>

RetentionNext ==
    \/ FirstCall
    \/ SecondCall

RetentionSpec == RetentionInit /\ [][RetentionNext]_vars

\* --------------------------------------------------------- retention: claims
\* The positions of the action results that carry a visual artifact (an image_url
\* field in a dict output), front to back.
RECURSIVE ImagePositions(_)
ImagePositions(msgs) ==
    IF msgs = <<>> THEN <<>>
    ELSE LET n == Len(msgs)
             m == msgs[n]
             has == m.isdict /\ m.type = "computer_call_output"
                    /\ m.output.isdict /\ m.output.image_url # Absent
         IN  ImagePositions(SubSeq(msgs, 1, n - 1)) \o (IF has THEN <<n>> ELSE <<>>)

\* The action results whose visual artifact is there and is not the sentinel.
Unredacted(msgs) ==
    {k \in DOMAIN msgs :
        /\ msgs[k].isdict
        /\ msgs[k].type = "computer_call_output"
        /\ msgs[k].output.isdict
        /\ msgs[k].output.image_url \notin {Absent, Omitted}}

BudgetSet == only_n_most_recent_images # Unset
Called == returned # <<>>
Out == returned[1].list

\* C3 (as stated): with a set budget N and more than N image-bearing results, the
\* last N of them come back as they were and every earlier one comes back with the
\* sentinel as its image.
C3_LastNKeptRestRedacted ==
    LET P == ImagePositions(messages)
        N == only_n_most_recent_images[1]
    IN  (Called /\ BudgetSet /\ Len(P) > N)
            => \A j \in DOMAIN P :
                   IF j > Len(P) - N
                   THEN Out[P[j]] = messages[P[j]]
                   ELSE Out[P[j]].output.image_url = Omitted

\* C4 (as stated): with a set budget N, 0 included, at most N results of the
\* returned list have an image that is not the sentinel.
C4_AtMostNUnredacted ==
    (Called /\ BudgetSet)
        => Cardinality(Unredacted(Out)) <= only_n_most_recent_images[1]

\* C7: the second application returns the list the first one returned.
C7_Idempotent ==
    Len(returned) = 2 => returned[2].list = returned[1].list

C7_Witness ==
    /\ Len(returned) = 2
    /\ returned[1].list # messages
    /\ Unredacted(returned[2].list) # {}

\* C8: the list the caller passed holds after the call what it held before.
C8_InputUntouched ==
    caller_messages = messages

C8_Witness ==
    /\ Len(returned) = 1
    /\ ~returned[1].is_arg
    /\ Cardinality(Unredacted(messages)) > Cardinality(Unredacted(Out))
    /\ caller_messages = messages

\* C9: the returned list has the length of the input, and each of its messages is
\* the input's message at that place, or, at an image-bearing result that is not
\* among the last N, that message with only its image_url set to the sentinel.
C9_OnlyImageFieldChanges ==
    LET P == ImagePositions(messages)
        N == only_n_most_recent_images[1]
    IN  Called =>
            /\ Len(Out) = Len(messages)
            /\ \A k \in DOMAIN messages :
                   \/ Out[k] = messages[k]
                   \/ /\ BudgetSet
                      /\ \E j \in DOMAIN P : P[j] = k /\ j <= Len(P) - N
                      /\ Out[k] = [messages[k] EXCEPT !.output.image_url = Omitted]

\* What the code does keep of C9: same length and order, and a message differs
\* from the input's at most by image_url = the sentinel.
C9_OnlyImageUrlDiffers ==
    Called =>
        /\ Len(Out) = Len(messages)
        /\ \A k \in DOMAIN messages :
               \/ Out[k] = messages[k]
               \/ Out[k] = [messages[k] EXCEPT !.output.image_url = Omitted]

\* A message that is no action result comes back changed: it holds the output
\* dict of a redacted one.
C9_SharedOutputRedacted ==
    /\ Called
    /\ \E k \in DOMAIN messages :
           /\ messages[k].type = "function_call_output"
           /\ Out[k] # messages[k]

C9_Witness ==
    /\ Called
    /\ \E k \in DOMAIN messages : Out[k] # messages[k]
    /\ \E k \in DOMAIN messages : ~messages[k].isdict
    /\ \E k \in DOMAIN messages :
           messages[k].type = "function_call_output" /\ Out[k] = messages[k]

\* C10: with the budget unset, or with at most N image-bearing results, the list
\* returned equals the input.
C10_IdentityWithinBudget ==
    (Called /\ (~BudgetSet \/ Len(ImagePositions(messages)) <= only_n_most_recent_images[1]))
        => Out = messages

C10_Witness ==
    /\ Called
    /\ BudgetSet
    /\ Len(ImagePositions(messages)) = only_n_most_recent_images[1]
    /\ Cardinality(Unredacted(messages)) = 2
    /\ Out = messages

\* ------------------------------------------------------------ replay: claims
IsPrefix(s, t) == Len(s) <= Len(t) /\ SubSeq(t, 1, Len(s)) = s

\* The actions handed to the handler so far, in the order of the calls.
Sent == [k \in 1..Len(calls) |-> actions_to_execute[calls[k]]]

\* What the claims say an artifact's history yields: the action of every
\* computer_call message, front to back, without screenshots and without
\* actions that have no type.
RECURSIVE ClaimedActions(_)
ClaimedActions(msgs) ==
    IF msgs = <<>> THEN <<>>
    ELSE LET m == Head(msgs)
             take == m.isdict /\ m.type = "computer_call"
                     /\ m.action.type \notin {None, "screenshot"}
         IN  (IF take THEN <<m.action>> ELSE <<>>) \o ClaimedActions(Tail(msgs))

RECURSIVE WithOperation(_)
WithOperation(acts) ==
    IF acts = <<>> THEN <<>>
    ELSE (IF Head(acts).type \in HandlerMethods THEN <<Head(acts)>> ELSE <<>>)
         \o WithOperation(Tail(acts))

KnownPositions == {k \in 1..Len(actions_to_execute) : actions_to_execute[k].type \in HandlerMethods}
UnknownPositions == (1..Len(actions_to_execute)) \ KnownPositions

DistinctIndices == \A f, g \in files : IndexOf(f) = IndexOf(g) => f = g

\* C1 (as stated): once a file has been selected from files with distinct numeric
\* indices, no file of the directory has a numerically higher index than it.
C1_SelectsHighestIndex ==
    (latest_response_file # NoFile /\ DistinctIndices)
        => \A f \in files : IndexOf(f) <= IndexOf(latest_response_file)

\* C2 (as stated): a completed run has handed to the handler exactly the claimed
\* actions of the selected artifact, in order.
C2_SentIsAllClaimed ==
    (pc = "Completed" /\ latest_response_file # NoFile)
        => Sent = ClaimedActions(content[latest_response_file].messages)

\* C2 (amended): the actions handed to the handler are always a prefix of the claimed
\* actions of the selected artifact that have an operation on the handler, in order,
\* and all of them once the run has completed; nothing is handed over before a file
\* is selected.
C2_SentIsSelectedArtifact ==
    IF latest_response_file = NoFile
    THEN calls = <<>>
    ELSE LET expected == WithOperation(ClaimedActions(content[latest_response_file].messages))
         IN  /\ IsPrefix(Sent, expected)
             /\ pc = "Completed" => Sent = expected

C2_Witness ==
    /\ pc = "Completed"
    /\ result = Return(3)
    /\ [k \in 1..Len(Sent) |-> Sent[k].type] = <<"move", "click", "type">>
    /\ \E f \in files : content[f] # content[latest_response_file]

\* C5: an action without an operation is warned about and passed over, never
\* invoked and never the cause of an error; the loop goes on, so that every action
\* before the current one was either invoked or warned about, and a completed run
\* returns the number of actions that have an operation.
C5_UnknownSkipped ==
    /\ Range(warned) \subseteq UnknownPositions
    /\ Range(calls) \subseteq KnownPositions
    /\ err # "AttributeError"
    /\ pc \in {"Replaying", "InFlight", "Sleeping", "Completed"} /\ inits > 0
         => /\ \A k \in UnknownPositions : k < i => k \in Range(warned)
            /\ \A k \in KnownPositions : k < i => k \in Range(calls)
    /\ (pc = "Completed" /\ inits > 0)
         => /\ result = Return(Cardinality(KnownPositions))
            /\ Range(warned) = UnknownPositions
            /\ i = Len(actions_to_execute) + 1

C5_Witness ==
    /\ pc = "Completed"
    /\ Len(actions_to_execute) = 3
    /\ Len(warned) = 1
    /\ warned[1] = 2
    /\ calls = <<1, 3>>
    /\ result = Return(2)

\* C6: once a handler method has raised, the run has ended with that error, the
\* raising call is the last call made, no value is returned, and no action was
\* invoked twice.
C6_RaisePropagates ==
    /\ \A j, k \in DOMAIN calls : j < k => calls[j] < calls[k]
    /\ raised # <<>>
         => /\ pc = "Error"
            /\ err = "RemoteError"
            /\ Len(raised) = 1
            /\ calls[Len(calls)] = raised[1]
            /\ i = raised[1]
            /\ result = NoResult
            /\ inflight = 0

C6_Witness ==
    /\ raised = <<2>>
    /\ Len(actions_to_execute) = 3
    /\ calls = <<1, 2>>
    /\ pc = "Error"

Untouched == calls = <<>> /\ warned = <<>> /\ inits = 0 /\ inflight = 0 /\ pauses = 0

\* C12: (with the SDK importable, the import of lines 54-60 coming before every
\* check of the location) a missing trajectory directory ends the run with FileNotFoundError and no
\* return value; an existing directory without response files ends it with the
\* return value 0 and no error; neither run builds the handler or invokes anything.
C12_MissingVersusEmpty ==
    /\ (sdk_installed /\ trajectory_dir = "missing" /\ pc # "NotStarted")
         => pc = "Error" /\ err = "FileNotFoundError" /\ result = NoResult /\ Untouched
    /\ (sdk_installed /\ trajectory_dir = "exists" /\ files = {}
          /\ pc \notin {"NotStarted", "Selecting"})
         => pc = "Completed" /\ err = NoError /\ result = Return(0) /\ Untouched

C12_Witness ==
    /\ trajectory_dir = "missing"
    /\ pc = "Error"
    /\ err = "FileNotFoundError"

C12_WitnessEmpty ==
    /\ trajectory_dir = "exists"
    /\ files = {}
    /\ pc = "Completed"
    /\ result = Return(0)

\* C13: when the selected artifact decodes and holds no replayable action, the run,
\* once past the parse, has returned 0 without error, without building the handler
\* and without invoking anything.
C13_NothingToReplay ==
    (/\ latest_response_file # NoFile
     /\ content[latest_response_file].decodable
     /\ ClaimedActions(content[latest_response_file].messages) = <<>>
     /\ pc # "Parsing")
        => pc = "Completed" /\ err = NoError /\ result = Return(0) /\ Untouched

C13_Witness ==
    /\ pc = "Completed"
    /\ latest_response_file # NoFile
    /\ ClaimedActions(content[latest_response_file].messages) = <<>>
    /\ result = Return(0)
    /\ \E k \in DOMAIN content[latest_response_file].messages :
           content[latest_response_file].messages[k] = CallMsg("screenshot")
    /\ \E k \in DOMAIN content[latest_response_file].messages :
           content[latest_response_file].messages[k] = ReasoningMsg

\* The file of the highest numeric index (files not empty, indices distinct).
HighestIndexFile == CHOOSE f \in files : \A g \in files : IndexOf(g) <= IndexOf(f)

\* C14 (as stated): when the artifact of the highest index cannot be decoded, the
\* run, once past the parse, has ended with the decode error: no return value, no
\* action dispatched, and no artifact of a lower index used in its place (no
\* actions extracted from any file, handler never built).
C14_HighestUndecodableFails ==
    (/\ files # {}
     /\ DistinctIndices
     /\ ~content[HighestIndexFile].decodable
     /\ pc \notin {"NotStarted", "Selecting", "Parsing"})
        => /\ pc = "Error"
           /\ err = "JSONDecodeError"
           /\ result = NoResult
           /\ actions_to_execute = <<>>
           /\ Untouched

\* What the code does keep of C14: when the file it has chosen cannot be decoded,
\* the run, once past the parse, has ended with the decode error: no return value,
\* no actions extracted (from this or any other file), the chosen file still the
\* chosen one, nothing invoked.
C14_DecodeErrorPropagates ==
    (/\ latest_response_file # NoFile
     /\ ~content[latest_response_file].decodable
     /\ pc # "Parsing")
        => /\ pc = "Error"
           /\ err = "JSONDecodeError"
           /\ result = NoResult
           /\ actions_to_execute = <<>>
           /\ latest_response_file = sorted(files)[Len(sorted(files))]
           /\ Untouched

\* The chosen file is the one of the highest index and cannot be decoded, a file of
\* a lower index decodes and holds actions, and the run ended with the decode error.
C14_Witness ==
    /\ pc = "Error"
    /\ err = "JSONDecodeError"
    /\ latest_response_file = HighestIndexFile
    /\ \E f \in files :
           /\ IndexOf(f) < IndexOf(latest_response_file)
           /\ content[f].decodable
           /\ ClaimedActions(content[f].messages) # <<>>

\* The artifact of the highest index cannot be decoded and the run replayed a
\* lower one to the end.
C14_LowerIndexReplayed ==
    /\ pc = "Completed"
    /\ files # {}
    /\ ~content[HighestIndexFile].decodable
    /\ IndexOf(latest_response_file) < IndexOf(HighestIndexFile)
    /\ calls # <<>>

\* C15: never more than one handler method is in flight, one is in flight exactly
\* while the run awaits it, and when the method of action i is started every earlier
\* call has ended (returned) and the pauses of all i - 1 earlier actions are over.
C15_OneAtATime ==
    /\ inflight \in {0, 1}
    /\ inflight = 1 <=> pc = "InFlight"
    /\ pc = "InFlight"
         => /\ calls[Len(calls)] = i
            /\ actions_executed = Len(calls) - 1
            /\ raised = <<>>
            /\ pauses = i - 1

C15_Witness ==
    /\ pc = "InFlight"
    /\ i = 3
    /\ calls = <<1, 2, 3>>
    /\ pauses = 2

\* C16: in the replay loop the number of pauses made equals the number of actions
\* processed before the current one, invoked or warned about alike; a run completed
\* over k extracted actions has made k pauses; without a loop there is no pause.
C16_OnePausePerAction ==
    /\ inits = 0 => pauses = 0
    /\ inits > 0 => pauses = i - 1
    /\ pc \in {"Replaying", "Completed"} => pauses = Len(calls) + Len(warned)
    /\ pc \in {"InFlight", "Sleeping"} => pauses = Len(calls) + Len(warned) - 1
    /\ (pc = "Completed" /\ inits > 0) => pauses = Len(actions_to_execute)

C16_Witness ==
    /\ pc = "Completed"
    /\ Len(actions_to_execute) = 3
    /\ pauses = 3
    /\ Len(warned) = 2
    /\ Len(calls) = 1

\* The order of the positions of a run.
Rank(p) ==
    CASE p = "NotStarted" -> 0
      [] p = "Selecting" -> 1
      [] p = "Parsing" -> 2
      [] p = "Initializing" -> 3
      [] p \in {"Replaying", "InFlight", "Sleeping"} -> 4
      [] p = "Completed" -> 5
      [] OTHER -> 6

\* One step of a run: forward in the order of the positions (or to the error exit);
\* the replay index starts at 1, stays where it is while the action is processed and
\* moves on by one when its pause ends.
C19_Step ==
    /\ Rank(pc) <= Rank(pc')
    /\ pc \in {"Completed", "Error"} => UNCHANGED vars
    /\ pc = "NotStarted" => pc' \in {"NotStarted", "Selecting", "Error"}
    /\ pc = "Selecting" => pc' \in {"Selecting", "Parsing", "Completed"}
    /\ pc = "Parsing" => pc' \in {"Parsing", "Initializing", "Completed", "Error"}
    /\ (pc = "Initializing" /\ pc' = "Replaying") => i' = 1
    /\ (pc = "Replaying" /\ pc' # pc) => pc' \in {"InFlight", "Sleeping"} /\ i' = i
    /\ (pc = "InFlight" /\ pc' # pc) => pc' \in {"Sleeping", "Error"} /\ i' = i
    /\ (pc = "Sleeping" /\ pc' # pc)
         => /\ i' = i + 1
            /\ i \in Range(calls) \cup Range(warned)
            /\ pc' = IF i' <= Len(actions_to_execute) THEN "Replaying" ELSE "Completed"
    /\ pc' = "Replaying" => i' \notin Range(calls') \cup Range(warned')

C19_CompletedCounts ==
    (pc = "Completed" /\ inits > 0)
        => /\ actions_executed + Len(warned) = Len(actions_to_execute)
           /\ actions_executed = Len(calls)
           /\ Range(calls) \cup Range(warned) = 1..Len(actions_to_execute)
           /\ Range(calls) \cap Range(warned) = {}

\* C19: every step of a run is such a step, a run completed after the loop has
\* processed each of the N actions once (executed + skipped = N), and a run in the
\* loop ends Completed unless a handler method raises.
C19_StateMachine ==
    /\ [][C19_Step]_vars
    /\ []C19_CompletedCounts
    /\ (pc = "Replaying") ~> (pc = "Completed" \/ raised # <<>>)

C19_Witness ==
    /\ pc = "Completed"
    /\ i = 4
    /\ actions_executed = 2
    /\ warned = <<1>>

\* C20: the handler is initialized at most once, always before anything is invoked
\* or warned about, and a failure to build or initialize it ends the run with that
\* error: nothing invoked, nothing returned.
C20_InitializedBeforeUse ==
    /\ inits \in {0, 1}
    /\ (calls # <<>> \/ warned # <<>> \/ pc \in {"Replaying", "InFlight", "Sleeping"})
         => inits = 1
    /\ pc = "Initializing" => inits = 0
    /\ err = "HandlerError"
         => pc = "Error" /\ result = NoResult /\ Untouched

C20_Witness ==
    /\ err = "HandlerError"
    /\ pc = "Error"
    /\ Len(actions_to_execute) = 2

\* ============================================================== milestone
\* A path is a sequence of characters; these are the characters tried.
BackSlash == "\\"
Letters == {"C", "a"}
PathChars == {"C", "a", ":", "/", BackSlash, "."}
PathExamples ==
    {<<"C", ":", "/", "a", "/", "a">>,
     <<"C", ":", BackSlash, "a", BackSlash, "a">>,
     <<BackSlash, BackSlash, "a", BackSlash, "a", BackSlash, "a">>,
     <<"/", "a", "/", "a", "/", "a">>,
     <<"a", "/", "a", BackSlash, "a">>}
Paths == SeqsUpTo(PathChars, MaxPathLen) \cup PathExamples
Descriptions == {"", "step 1 done"}
\* str(e) of the exceptions the remote interface raises.
ExceptionTexts == {"", "Connection refused"}

\* s.rstrip(seps)
RECURSIVE RStrip(_, _)
RStrip(s, seps) ==
    IF s # <<>> /\ s[Len(s)] \in seps THEN RStrip(SubSeq(s, 1, Len(s) - 1), seps) ELSE s

\* The 1-based place of the last character of s that is in seps, 0 if there is none.
RECURSIVE LastOf(_, _)
LastOf(s, seps) ==
    IF s = <<>> THEN 0
    ELSE IF s[Len(s)] \in seps THEN Len(s)
    ELSE LastOf(SubSeq(s, 1, Len(s) - 1), seps)

\* The 1-based place of the first character of s in seps at or after `from`, 0 if none.
RECURSIVE FirstOf(_, _, _)
FirstOf(s, seps, from) ==
    IF from > Len(s) THEN 0
    ELSE IF s[from] \in seps THEN from
    ELSE FirstOf(s, seps, from + 1)

\* posixpath.dirname
posixpath_dirname(p) ==
    LET head == SubSeq(p, 1, LastOf(p, {"/"}))
    IN  IF head # <<>> /\ \E k \in DOMAIN head : head[k] # "/"
        THEN RStrip(head, {"/"})
        ELSE head

\* ntpath.splitdrive: <<drive, rest>>
ntpath_splitdrive(p) ==
    LET seps == {"/", BackSlash}
    IN  IF Len(p) >= 2 /\ p[1] \in seps /\ p[2] \in seps
        THEN LET index == FirstOf(p, seps, 3)
                 index2 == IF index = 0 THEN 0 ELSE FirstOf(p, seps, index + 1)
             IN  IF index = 0 \/ index2 = 0 THEN <<p, <<>>>>
                 ELSE <<SubSeq(p, 1, index2 - 1), SubSeq(p, index2, Len(p))>>
        ELSE IF Len(p) >= 2 /\ p[2] = ":"
        THEN <<SubSeq(p, 1, 2), SubSeq(p, 3, Len(p))>>
        ELSE <<<<>>, p>>

\* ntpath.dirname
ntpath_dirname(p) ==
    LET seps == {"/", BackSlash}
        d == ntpath_splitdrive(p)[1]
        r == ntpath_splitdrive(p)[2]
        head == SubSeq(r, 1, LastOf(r, seps))
        stripped == RStrip(head, seps)
    IN  d \o (IF stripped # <<>> THEN stripped ELSE head)

\* Lines 95-101: re.match(r'^[A-Za-z]:\\', path) or path.startswith('\\\\') or '\\' in path
is_windows_path(p) ==
    \/ Len(p) >= 3 /\ p[1] \in Letters /\ p[2] = ":" /\ p[3] = BackSlash
    \/ Len(p) >= 2 /\ p[1] = BackSlash /\ p[2] = BackSlash
    \/ BackSlash \in Range(p)

\* The two shapes of the returned dictionary; a text is the sequence of the
\* pieces the f-string joins, and is the empty string when every piece is.
Failure(text) == [success |-> FALSE, key |-> "error", text |-> text]
Success(text) == [success |-> TRUE, key |-> "message", text |-> text]
IsEmptyText(text) == \A k \in DOMAIN text : text[k] = ""

\* Lines 121-132: the command that creates the parent directory.
MkdirCommand == IF is_windows THEN "powershell New-Item" ELSE "mkdir -p"
NeedsMkdir(d) == d # <<>> /\ d # <<".">>

MilestoneInit ==
    /\ ReplayIdle
    /\ RetentionIdle
    /\ AgentIdle
    /\ path \in Paths
    /\ description \in Descriptions
    /\ m_pc = "Idle"
    /\ via = "none"
    /\ is_windows = FALSE
    /\ dir_path = <<>>
    /\ splitter = "none"
    /\ attempted = <<>>
    /\ completed = <<>>
    /\ m_result = NoResult

\* call, lines 70-75: a missing path is refused before anything is tried.
CallWithoutPath ==
    /\ m_pc = "Idle"
    /\ path = <<>>
    /\ m_pc' = "Returned"
    /\ m_result' = <<Failure(<<"path parameter is required">>)>>
    /\ UNCHANGED <<path, description, via, is_windows, dir_path, splitter,
                   attempted, completed, replayVars, retentionVars, agentVars>>

\* call, lines 77-90: _execute_save is run in a worker thread when the event
\* loop is already running, on the loop itself otherwise.
Call ==
    /\ m_pc = "Idle"
    /\ path # <<>>
    /\ via' \in {"thread", "loop"}
    /\ m_pc' = "Screenshot"
    /\ UNCHANGED <<path, description, is_windows, dir_path, splitter,
                   attempted, completed, m_result, replayVars, retentionVars, agentVars>>

\* call, lines 79 and 91-93: asyncio.get_event_loop() raises in a thread that has no loop.
GetEventLoopRaises ==
    /\ m_pc = "Idle"
    /\ path # <<>>
    /\ m_pc' = "Returned"
    /\ m_result' = <<Failure(<<"There is no current event loop in thread ", "'Thread-1'", ".">>)>>
    /\ UNCHANGED <<path, description, via, is_windows, dir_path, splitter,
                   attempted, completed, replayVars, retentionVars, agentVars>>

\* call, lines 79-80, 88-93: the current loop is there and not running, but closed:
\* run_until_complete raises before _execute_save has run.
RunUntilCompleteRaises ==
    /\ m_pc = "Idle"
    /\ path # <<>>
    /\ m_pc' = "Returned"
    /\ m_result' = <<Failure(<<"Event loop is closed">>)>>
    /\ UNCHANGED <<path, description, via, is_windows, dir_path, splitter,
                   attempted, completed, replayVars, retentionVars, agentVars>>

\* _execute_save, line 107: the screenshot is asked for and awaited.
ScreenshotStarts ==
    /\ m_pc = "Screenshot"
    /\ attempted' = Append(attempted, "screenshot")
    /\ m_pc' = "InScreenshot"
    /\ UNCHANGED <<path, description, via, is_windows, dir_path, splitter,
                   completed, m_result, replayVars, retentionVars, agentVars>>

\* _execute_save, lines 107-121: the screenshot is back, the convention chosen, the parent split off.
ScreenshotReturns ==
    /\ m_pc = "InScreenshot"
    /\ completed' = Append(completed, "screenshot")
    /\ is_windows' = is_windows_path(path)
    /\ splitter' = IF is_windows' THEN "ntpath" ELSE "posixpath"
    /\ dir_path' = IF is_windows' THEN ntpath_dirname(path) ELSE posixpath_dirname(path)
    /\ m_pc' = IF NeedsMkdir(dir_path') THEN "Mkdir" ELSE "Write"
    /\ UNCHANGED <<path, description, via, attempted, m_result,
                   replayVars, retentionVars, agentVars>>

\* _execute_save, lines 107 and 148-150: the outer handler returns str(e) alone.
ScreenshotRaises ==
    /\ m_pc = "InScreenshot"
    /\ \E msg \in ExceptionTexts : m_result' = <<Failure(<<msg>>)>>
    /\ m_pc' = "Returned"
    /\ UNCHANGED <<path, description, via, is_windows, dir_path, splitter,
                   attempted, completed, replayVars, retentionVars, agentVars>>

\* _execute_save, lines 123-132: the command is sent and awaited.
MkdirStarts ==
    /\ m_pc = "Mkdir"
    /\ attempted' = Append(attempted, MkdirCommand)
    /\ m_pc' = "InMkdir"
    /\ UNCHANGED <<path, description, via, is_windows, dir_path, splitter,
                   completed, m_result, replayVars, retentionVars, agentVars>>

\* _execute_save, lines 123-132: run_command returned (its exit status is not looked at).
MkdirReturns ==
    /\ m_pc = "InMkdir"
    /\ completed' = Append(completed, MkdirCommand)
    /\ m_pc' = "Write"
    /\ UNCHANGED <<path, description, via, is_windows, dir_path, splitter,
                   attempted, m_result, replayVars, retentionVars, agentVars>>

\* The directory error is dropped and the write goes ahead.
OnMkdirRaiseIgnored(msg) ==
    /\ m_pc' = "Write"
    /\ m_result' = m_result

\* _execute_save, lines 133-135.
OnMkdirRaise(msg) ==
    /\ m_pc' = "Returned"
    /\ m_result' = <<Failure(<<"Failed to create directory: ", msg>>)>>

MkdirRaises ==
    /\ m_pc = "InMkdir"
    /\ \E msg \in ExceptionTexts : OnMkdirRaise(msg)
    /\ UNCHANGED <<path, description, via, is_windows, dir_path, splitter,
                   attempted, completed, replayVars, retentionVars, agentVars>>

\* _execute_save, line 139: the bytes are sent and the write awaited.
WriteStarts ==
    /\ m_pc = "Write"
    /\ attempted' = Append(attempted, "write_bytes")
    /\ m_pc' = "InWrite"
    /\ UNCHANGED <<path, description, via, is_windows, dir_path, splitter,
                   completed, m_result, replayVars, retentionVars, agentVars>>

\* _execute_save, lines 139-143 (the message's leading check mark is left out of the text).
WriteReturns ==
    /\ m_pc = "InWrite"
    /\ completed' = Append(completed, "write_bytes")
    /\ m_result' = <<Success(<<"Milestone screenshot saved to: ">> \o path
                             \o (IF description # ""
                                 THEN <<" (Milestone: ", description, ")">>
                                 ELSE <<>>))>>
    /\ m_pc' = "Returned"
    /\ UNCHANGED <<path, description, via, is_windows, dir_path, splitter,
                   attempted, replayVars, retentionVars, agentVars>>

\* _execute_save, lines 144-146.
WriteRaises ==
    /\ m_pc = "InWrite"
    /\ \E msg \in ExceptionTexts :
           m_result' = <<Failure(<<"Failed to save screenshot: ", msg>>)>>
    /\ m_pc' = "Returned"
    /\ UNCHANGED <<path, description, via, is_windows, dir_path, splitter,
                   attempted, completed, replayVars, retentionVars, agentVars>>

\* Lines 91, 133, 144, 148 catch Exception only: an awaited operation that raises
\* something else (asyncio.CancelledError, any BaseException) makes call raise it
\* to its caller, and no dict is returned.
AwaitedRaisesBaseException ==
    /\ m_pc \in {"InScreenshot", "InMkdir", "InWrite"}
    /\ m_pc' = "Raised"
    /\ UNCHANGED <<path, description, via, is_windows, dir_path, splitter,
                   attempted, completed, m_result, replayVars, retentionVars, agentVars>>

MilestoneNext ==
    \/ CallWithoutPath
    \/ Call
    \/ GetEventLoopRaises
    \/ RunUntilCompleteRaises
    \/ ScreenshotStarts
    \/ ScreenshotReturns
    \/ ScreenshotRaises
    \/ MkdirStarts
    \/ MkdirReturns
    \/ MkdirRaises
    \/ WriteStarts
    \/ WriteReturns
    \/ WriteRaises
    \/ AwaitedRaisesBaseException

MilestoneSpec == MilestoneInit /\ [][MilestoneNext]_vars

\* ====================================================== milestone: claims
Returned == m_pc = "Returned"
Stages(log) == Range(log)
MkdirCommands == {"mkdir -p", "powershell New-Item"}
\* A stage has failed when it was attempted and did not complete.
SomeStageFailed == Len(attempted) > Len(completed)

\* C11: milestone capture never raises to its caller; for a failure at any
\* stage (screenshot, directory creation, write) the call returns a result
\* with success = false and a non-empty error string.
C11_FailureHasNonEmptyError ==
    /\ m_pc # "Raised"
    /\ (Returned /\ (SomeStageFailed \/ ~m_result[1].success)) =>
           /\ m_result # NoResult
           /\ ~m_result[1].success
           /\ m_result[1].key = "error"
           /\ ~IsEmptyText(m_result[1].text)

\* The part of C11 the code does keep: a call that returns after a stage has
\* failed returns a result whose success is false.
C11_FailureIsReturned ==
    (Returned /\ SomeStageFailed) =>
        (m_result # NoResult /\ ~m_result[1].success /\ m_result[1].key = "error")

\* The syntactic test as the claim words it.
HasDriveLetterPrefix(p) == Len(p) >= 2 /\ p[1] \in Letters /\ p[2] = ":"
HasUNCPrefix(p) == Len(p) >= 2 /\ p[1] = BackSlash /\ p[2] = BackSlash
HasBackSlash(p) == \E k \in DOMAIN p : p[k] = BackSlash
ClaimedWindows(p) == HasDriveLetterPrefix(p) \/ HasUNCPrefix(p) \/ HasBackSlash(p)

\* C17: a path is handled by the Windows convention (PowerShell directory
\* creation, ntpath splitting) exactly when it has a drive-letter prefix, a
\* UNC prefix or a backslash; every other path by the POSIX convention
\* (mkdir -p, posixpath splitting); one capture never uses both.
C17_WindowsExactlyWhenClaimed ==
    (splitter # "none") =>
        /\ (splitter = "ntpath") <=> ClaimedWindows(path)
        /\ (splitter = "posixpath") <=> ~ClaimedWindows(path)
        /\ "powershell New-Item" \in Stages(attempted) => ClaimedWindows(path)
        /\ "mkdir -p" \in Stages(attempted) => ~ClaimedWindows(path)
        /\ ~({"mkdir -p", "powershell New-Item"} \subseteq Stages(attempted))

\* The part of C17 the code does keep: splitting and directory creation of
\* one capture follow the same convention.
C17_OneConvention ==
    (splitter # "none") =>
        /\ "powershell New-Item" \in Stages(attempted) => splitter = "ntpath"
        /\ "mkdir -p" \in Stages(attempted) => splitter = "posixpath"

\* The stages a capture of this path must go through, in order.
ExpectedStages ==
    <<"screenshot">>
    \o (IF NeedsMkdir(dir_path) THEN <<MkdirCommand>> ELSE <<>>)
    \o <<"write_bytes">>

\* C18: the stages run in the order screenshot, parent-directory creation
\* (only when the path has a non-empty parent other than "."), file write;
\* the write is never attempted unless the screenshot succeeded and the
\* directory creation, when attempted, did not fail; success = true is
\* returned only after the write has completed.
C18_StageOrder ==
    /\ (splitter # "none") => IsPrefix(attempted, ExpectedStages)
    /\ (splitter = "none") => IsPrefix(attempted, <<"screenshot">>)
    /\ \/ completed = attempted
       \/ attempted # <<>> /\ completed = SubSeq(attempted, 1, Len(attempted) - 1)
    /\ "write_bytes" \in Stages(attempted) =>
           /\ "screenshot" \in Stages(completed)
           /\ \A c \in MkdirCommands : c \in Stages(attempted) => c \in Stages(completed)
    /\ (m_result # NoResult /\ m_result[1].success) =>
           (Returned /\ "write_bytes" \in Stages(completed))
    /\ (Returned /\ SomeStageFailed) => Len(attempted) = Len(completed) + 1

\* A capture with a parent directory went through all three stages and returned success.
C18_Witness ==
    /\ Returned
    /\ m_result # NoResult
    /\ m_result[1].success
    /\ completed = ExpectedStages
    /\ Len(completed) = 3

\* A capture whose path has no parent to create went from the screenshot to the write.
C18_WitnessNoParent ==
    /\ Returned
    /\ path # <<>>
    /\ ~NeedsMkdir(dir_path)
    /\ completed = <<"screenshot", "write_bytes">>

\* A failed directory creation ended the capture before the write.
C18_WitnessMkdirFailed ==
    /\ Returned
    /\ attempted = <<"screenshot", MkdirCommand>>
    /\ completed = <<"screenshot">>

\* ================================================================== agent
\* A text is a sequence of characters.
Done == <<"D", "O", "N", "E">>
Texts ==
    {Done,
     <<"o", "k", " ">> \o Done \o <<".">>,
     <<"d", "o", "n", "e">>,
     <<"D", "O", "N">>}

\* word in text
Contains(text, word) ==
    \E k \in 1..(Len(text) - Len(word) + 1) : SubSeq(text, k, k + Len(word) - 1) = word

\* The items of a result's output: type, and for a message its content parts.
TextPart(t) == [text |-> t]
ImagePart == [image_url |-> "data:image/png;base64"]
Message(parts) == [type |-> "message", content |-> parts]
CallItem == [type |-> "computer_call"]
Items ==
    {CallItem, Message(<<>>), Message(<<ImagePart>>),
     Message(<<TextPart(<<"o", "k">>), TextPart(Done)>>)}
    \cup {Message(<<TextPart(t)>>) : t \in Texts}
OutputExamples ==
    {<<Message(<<TextPart(<<"o", "k">>)>>), Message(<<TextPart(Done)>>)>>,
     <<CallItem, Message(<<TextPart(Done)>>)>>,
     <<Message(<<TextPart(Done)>>), Message(<<>>)>>,
     <<Message(<<>>), Message(<<TextPart(Done)>>)>>}
Outputs == SeqsUpTo(Items, MaxItems) \cup OutputExamples
\* result["usage"]; a missing key counts 0.
Usages == {NoUsage, [prompt_tokens |-> 2, completion_tokens |-> 1]}

\* Lines 124-129: the scan of one result's output from item k on: "done" at
\* the first message whose first content part's text holds DONE, "raises"
\* when a message before it has no first part or a first part without text,
\* "none" otherwise.
RECURSIVE ScanFrom(_, _)
ScanFrom(output, k) ==
    IF k > Len(output) THEN "none"
    ELSE LET item == output[k]
         IN  IF item.type # "message" THEN ScanFrom(output, k + 1)
             ELSE IF item.content = <<>> THEN "raises"
             ELSE IF "text" \notin DOMAIN item.content[1] THEN "raises"
             ELSE IF Contains(item.content[1].text, Done) THEN "done"
             ELSE ScanFrom(output, k + 1)
Scan(output) == ScanFrom(output, 1)

\* Lines 94-95.
AddUsage(total, usage) == [k \in DOMAIN total |-> total[k] + usage[k]]

AgentResult(input, output, mode) ==
    [total_input_tokens |-> input, total_output_tokens |-> output, failure_mode |-> mode]

AgentInit ==
    /\ ReplayIdle
    /\ RetentionIdle
    /\ MilestoneIdle
    /\ max_steps \in 0..MaxSteps
    /\ stream \in SeqsUpTo(Outputs, MaxResults)
    /\ tail \in {"ends", "raises", "cancelled"}
    /\ tracer \in BOOLEAN
    /\ recorded = <<>>
    /\ a_pc = "Idle"
    /\ step = 0
    /\ task_completed = FALSE
    /\ total_usage = NoUsage
    /\ agent_result = NoResult

\* Lines 79-88.
PerformTask ==
    /\ a_pc = "Idle"
    /\ a_pc' = "Loop"
    /\ total_usage' = NoUsage
    /\ step' = 0
    /\ task_completed' = FALSE
    /\ UNCHANGED <<max_steps, stream, tail, tracer, recorded, agent_result,
                   replayVars, retentionVars, milestoneVars>>

\* Lines 90-101: a result is taken and counted; with a tracer the screenshot for
\* its record is asked for and awaited.
TakeResult ==
    /\ a_pc = "Loop"
    /\ step < Len(stream)
    /\ step' = step + 1
    /\ \E usage \in Usages : total_usage' = AddUsage(total_usage, usage)
    /\ a_pc' = IF tracer THEN "Tracing" ELSE "Taken"
    /\ UNCHANGED <<max_steps, stream, tail, tracer, recorded, task_completed, agent_result,
                   replayVars, retentionVars, milestoneVars>>

\* Lines 101-113: the screenshot is back and the step is recorded.
TracerRecords ==
    /\ a_pc = "Tracing"
    /\ recorded' = Append(recorded, step)
    /\ a_pc' = "Taken"
    /\ UNCHANGED <<max_steps, stream, tail, tracer, step, task_completed, total_usage,
                   agent_result, replayVars, retentionVars, milestoneVars>>

\* Lines 114-115: the screenshot or the record raised; a warning is printed and
\* the step goes on.
TracerFails ==
    /\ a_pc = "Tracing"
    /\ a_pc' = "Taken"
    /\ UNCHANGED <<max_steps, stream, tail, tracer, recorded, step, task_completed,
                   total_usage, agent_result, replayVars, retentionVars, milestoneVars>>

\* Lines 101-115 and 147: the awaited screenshot or the record raises something
\* that is no Exception (asyncio.CancelledError, any BaseException); neither
\* `except Exception` catches it, perform_task raises it and returns nothing.
TracerRaisesBaseException ==
    /\ a_pc = "Tracing"
    /\ a_pc' = "Raised"
    /\ UNCHANGED <<max_steps, stream, tail, tracer, recorded, step, task_completed,
                   total_usage, agent_result, replayVars, retentionVars, milestoneVars>>

\* Lines 117-120: the step limit ends the loop, before the result's output is looked at.
StopAtLimit ==
    /\ a_pc = "Taken"
    /\ step >= max_steps
    /\ a_pc' = "Decide"
    /\ UNCHANGED <<max_steps, stream, tail, tracer, recorded, step, task_completed,
                   total_usage, agent_result, replayVars, retentionVars, milestoneVars>>

\* Lines 118-129: below the limit the result's output is scanned for DONE; the
\* break of line 129 leaves the scan only, the loop goes on.
ScanOutput ==
    /\ a_pc = "Taken"
    /\ step < max_steps
    /\ Scan(stream[step]) # "raises"
    /\ task_completed' = (task_completed \/ Scan(stream[step]) = "done")
    /\ a_pc' = "Loop"
    /\ UNCHANGED <<max_steps, stream, tail, tracer, recorded, step, total_usage,
                   agent_result, replayVars, retentionVars, milestoneVars>>

\* Lines 124-126 and 147-156: the scan raises (IndexError, KeyError).
ScanOutputRaises ==
    /\ a_pc = "Taken"
    /\ step < max_steps
    /\ Scan(stream[step]) = "raises"
    /\ agent_result' = <<AgentResult(0, 0, "UNKNOWN")>>
    /\ a_pc' = "Returned"
    /\ UNCHANGED <<max_steps, stream, tail, tracer, recorded, step, task_completed,
                   total_usage, replayVars, retentionVars, milestoneVars>>

\* Line 90: agent.run has no more results.
Exhausted ==
    /\ a_pc = "Loop"
    /\ step = Len(stream)
    /\ tail = "ends"
    /\ a_pc' = "Decide"
    /\ UNCHANGED <<max_steps, stream, tail, tracer, recorded, step, task_completed,
                   total_usage, agent_result, replayVars, retentionVars, milestoneVars>>

\* Lines 90 and 147: agent.run raises something that is no Exception
\* (asyncio.CancelledError, any BaseException); perform_task raises it and
\* returns nothing.
RunRaisesBaseException ==
    /\ a_pc = "Loop"
    /\ step = Len(stream)
    /\ tail = "cancelled"
    /\ a_pc' = "Raised"
    /\ UNCHANGED <<max_steps, stream, tail, tracer, recorded, step, task_completed,
                   total_usage, agent_result, replayVars, retentionVars, milestoneVars>>

\* Lines 90 and 147-156: agent.run raises an Exception.
RunRaises ==
    /\ a_pc = "Loop"
    /\ step = Len(stream)
    /\ tail = "raises"
    /\ agent_result' = <<AgentResult(0, 0, "UNKNOWN")>>
    /\ a_pc' = "Returned"
    /\ UNCHANGED <<max_steps, stream, tail, tracer, recorded, step, task_completed,
                   total_usage, replayVars, retentionVars, milestoneVars>>

\* Lines 134-140.
FailureModeOf(completed_flag, steps, limit) ==
    IF completed_flag THEN "NONE"
    ELSE IF steps >= limit THEN "MAX_STEPS_EXCEEDED"
    ELSE "NONE"

\* Lines 131-146.
Decide ==
    /\ a_pc = "Decide"
    /\ agent_result' = <<AgentResult(total_usage.prompt_tokens,
                                     total_usage.completion_tokens,
                                     FailureModeOf(task_completed, step, max_steps))>>
    /\ a_pc' = "Returned"
    /\ UNCHANGED <<max_steps, stream, tail, tracer, recorded, step, task_completed,
                   total_usage, replayVars, retentionVars, milestoneVars>>

AgentNext ==
    \/ PerformTask
    \/ TakeResult
    \/ TracerRecords
    \/ TracerFails
    \/ TracerRaisesBaseException
    \/ StopAtLimit
    \/ ScanOutput
    \/ ScanOutputRaises
    \/ Exhausted
    \/ RunRaises
    \/ RunRaisesBaseException
    \/ Decide

AgentSpec == AgentInit /\ [][AgentNext]_vars

\* ========================================================== agent: claims
\* A result signals completion: its output has a message whose text includes DONE.
SignalsDone(output) ==
    \E k \in DOMAIN output :
        /\ output[k].type = "message"
        /\ output[k].content # <<>>
        /\ "text" \in DOMAIN output[k].content[1]
        /\ Contains(output[k].content[1].text, Done)
AgentReturned == a_pc = "Returned"
FailureMode == agent_result[1].failure_mode

\* C21: for every max_steps and every stream of results, if any result
\* consumed by the step loop contains a message whose text includes DONE,
\* the returned failure mode is NONE; MAX_STEPS_EXCEEDED is returned only
\* when the loop consumed max_steps results and none of them signalled
\* completion.
C21_DoneMeansNone ==
    AgentReturned =>
        /\ (\E k \in 1..step : SignalsDone(stream[k])) => FailureMode = "NONE"
        /\ FailureMode = "MAX_STEPS_EXCEEDED" =>
               /\ step = max_steps
               /\ \A k \in 1..step : ~SignalsDone(stream[k])

\* What the code does keep: when nothing raised, a DONE in a result taken
\* before the limit was reached gives NONE, and MAX_STEPS_EXCEEDED means the
\* limit was reached with no DONE in any result before the last one taken.
C21_DoneBeforeLimitMeansNone ==
    (AgentReturned /\ FailureMode # "UNKNOWN") =>
        /\ (\E k \in 1..(step - 1) : Scan(stream[k]) = "done") => FailureMode = "NONE"
        /\ FailureMode = "MAX_STEPS_EXCEEDED" =>
               /\ step >= max_steps
               /\ step <= Max(max_steps, 1)
               /\ \A k \in 1..(step - 1) : Scan(stream[k]) # "done"

\* A run never returns a result after it has raised, and raises only out of an await.
C21_RaisedReturnsNothing ==
    a_pc = "Raised" => agent_result = NoResult

\* The last result the limit allows says DONE and the run is reported as out of steps.
C21_DoneAtLimit ==
    /\ AgentReturned
    /\ max_steps >= 1
    /\ step = max_steps
    /\ \A k \in 1..step : Scan(stream[k]) # "raises"
    /\ SignalsDone(stream[step])
    /\ FailureMode = "MAX_STEPS_EXCEEDED"

====
